---- MODULE Spec2Model ----
(***************************************************************************)
(* A model of TrendyolPriceController (src/src/TrendyolPriceController.py):*)
(*   - matchingProducts, the cross-marketplace matcher, as the loop it is  *)
(*     (outer loop over dfTrendyol, inner scan of dfHepsiburada, tail loop *)
(*     over the Hepsiburada rows that were never matched);                 *)
(*   - the priceTracking ledger with store_products and the window query   *)
(*     fetch_data_by_range;                                                *)
(*   - get_price_category, the historical-low classifier.                  *)
(* Indices are 1-based here (TLA+ sequences); column c of a data frame row *)
(* (iloc[_, c]) is component c+1 of the row's tuple.                       *)
(***************************************************************************)
EXTENDS Integers, Sequences, FiniteSets, TLC

VARIABLES
    \* ---- matchingProducts ----
    dfTrendyol,      \* argument: sequence of Trendyol rows (6 columns)
    dfHepsiburada,   \* argument: sequence of Hepsiburada rows (6 columns)
    new_df,          \* the result table: rows <<stockID, HBID, productName, price, stock>>
    origin,          \* per row of new_df: the indices i / j / k its cells were read at
    hepsi_matched,   \* set of Hepsiburada indices that were matched
    trend_matched,   \* set of Trendyol indices that were matched
    i,               \* outer loop variable (0: loop not started)
    j,               \* inner loop variable; keeps its last value (0: never bound)
    scanned,         \* how many values the inner range() has produced for this i
    k,               \* tail loop variable
    matched,         \* the flag of the current outer iteration
    pc,              \* position in matchingProducts
    \* ---- priceTracking ledger ----
    ledger,          \* rows of the priceTracking table, in insertion order
    today,           \* CURDATE() of the database, as a day number
    \* ---- get_price_category ----
    barcode,         \* argument
    new_price,       \* argument
    week_low,        \* local: 7-day window minimum
    two_week_low,    \* local: 14-day window minimum
    month_low,       \* local: 30-day window minimum
    category,        \* the returned label
    cpc,             \* position in get_price_category
    \* ---- fetch_data_by_month_year ----
    month,           \* argument
    year,            \* argument
    month_df,        \* the returned data frame
    mpc,             \* position in fetch_data_by_month_year
    \* ---- fetch_all_products / run, and the ProductPull script ----
    variant,         \* which pagination loop runs: "controller" or "script"
    total_pages,     \* totalPages of the first response
    current_page,    \* the loop's page counter
    fetched,         \* the list `products`: what was fetched so far
    requested,       \* the page indices requested, in order
    failed_page,     \* the page whose request failed (-1: none)
    rpc,             \* position in run
    \* ---- update_product_price / check_batch_status ----
    batches,         \* the marketplace's batches: handle -> item statuses
    batch_id,        \* what update_product_price returned, passed to the check
    update_ok,       \* the flag update_product_price returned
    requested_id,    \* the batch id in the URL check_batch_status requested
    response_ok,     \* that request came back with status 200
    all_success,     \* what check_batch_status returned
    bpc              \* position in the round trip

matcherVars == <<dfTrendyol, dfHepsiburada, new_df, origin, hepsi_matched,
                 trend_matched, i, j, scanned, k, matched, pc>>
ledgerVars == <<ledger, today>>
classifierVars == <<barcode, new_price, week_low, two_week_low, month_low,
                    category, cpc>>
monthVars == <<month, year, month_df, mpc>>
pullVars == <<variant, total_pages, current_page, fetched, requested,
              failed_page, rpc>>
batchVars == <<batches, batch_id, update_ok, requested_id, response_ok,
               all_success, bpc>>
otherVars == <<monthVars, pullVars, batchVars>>
vars == <<matcherVars, ledgerVars, classifierVars, otherVars>>

-----------------------------------------------------------------------------
(* Bounds of the model *)

MaxA == 2        \* longest dfTrendyol
MaxB == 2        \* longest dfHepsiburada
MaxLedger == 2   \* most rows of priceTracking
MaxDay == 30     \* last day the calendar reaches

SeqsUpTo(S, n) == UNION {[1..m -> S] : m \in 0..n}

SetMin(S) == CHOOSE x \in S : \A y \in S : x <= y

-----------------------------------------------------------------------------
(* Cell values.  A null cell of a data frame is NaN, which equals nothing, *)
(* itself included; every other cell is compared as an opaque value.       *)

NaN == "nan"

CellEq(x, y) == x # NaN /\ y # NaN /\ x = y

(* Trendyol rows: col 0 stock id, col 1 and col 2 further identifiers,     *)
(* col 3 product name, col 4 price, col 5 stock.                           *)
TrendyolRows ==
    { <<"111", "",    "W1",  "Widget",    10, 5>>,
      <<"222", "333", NaN,   "Gizmo",     12, 3>>,
      <<"444", NaN,   "555", "Doohickey", 15, 0>> }

(* Hepsiburada rows: col 0 stock id, col 1 HBID, col 2 product name,       *)
(* col 3 price, col 4 stock, col 5 a further identifier.                   *)
HepsiburadaRows ==
    { <<"999", "HB1", "Gadget",   20, 7, "111">>,
      <<"666", "HB2", "Sprocket", 21, 8, "">>,
      <<"333", "HB3", "Cog",      22, 9, NaN>>,
      <<"555", "HB4", "Flange",   23, 1, "222">>,
      <<"777", "HB5", "Gear",     24, 2, "W1">>,
      <<"444", "HB6", "Bolt",     25, 4, "000">> }

-----------------------------------------------------------------------------
(* matchingProducts *)

\* The condition of the inner loop: col 0, 1, 2 of the Trendyol row against
\* col 0 and col 5 of the Hepsiburada row.
MatchFiveOnly(t, h) ==
    \/ CellEq(t[1], h[1])
    \/ CellEq(t[1], h[6])
    \/ CellEq(t[2], h[1])
    \/ CellEq(t[2], h[6])
    \/ CellEq(t[3], h[1])

RowsMatch(t, h) ==
    \/ CellEq(t[1], h[1])
    \/ CellEq(t[1], h[6])
    \/ CellEq(t[2], h[1])
    \/ CellEq(t[2], h[6])
    \/ CellEq(t[3], h[1])
    \/ CellEq(t[3], h[6])

\* The row appended for a Trendyol row, with the HBID read from Hepsiburada row h.
TrendyolRecordAltId(t, h) == <<t[1], h[6], t[4], t[5], t[6]>>

TrendyolRecord(t, h) == <<t[1], h[2], t[4], t[5], t[6]>>

\* The row appended for an unmatched Hepsiburada row.
HepsiburadaRecord(h) == <<h[1], h[2], h[3], h[4], h[5]>>

MatcherInit ==
    /\ dfTrendyol \in SeqsUpTo(TrendyolRows, MaxA)
    /\ dfHepsiburada \in SeqsUpTo(HepsiburadaRows, MaxB)
    /\ new_df = <<>>
    /\ origin = <<>>
    /\ hepsi_matched = {}
    /\ trend_matched = {}
    /\ i = 0
    /\ j = 0
    /\ scanned = 0
    /\ k = 0
    /\ matched = FALSE
    /\ pc = "outer"

\* for i in range(len(dfTrendyol)): matched = False
NextTrendyol ==
    /\ pc = "outer"
    /\ i < Len(dfTrendyol)
    /\ i' = i + 1
    /\ matched' = FALSE
    /\ scanned' = 0
    /\ pc' = "inner"
    /\ UNCHANGED <<dfTrendyol, dfHepsiburada, new_df, origin, hepsi_matched,
                   trend_matched, j, k>>
    /\ UNCHANGED <<ledgerVars, classifierVars, otherVars>>

\* One iteration of the inner loop whose condition holds: record the indices,
\* append the row, break.  The `if not matched` that follows is skipped.
ScanMatch ==
    /\ pc = "inner"
    /\ scanned < Len(dfHepsiburada)
    /\ RowsMatch(dfTrendyol[i], dfHepsiburada[scanned + 1])
    /\ j' = scanned + 1
    /\ scanned' = scanned + 1
    /\ hepsi_matched' = hepsi_matched \cup {j'}
    /\ trend_matched' = trend_matched \cup {i}
    /\ new_df' = Append(new_df, TrendyolRecord(dfTrendyol[i], dfHepsiburada[j']))
    /\ origin' = Append(origin, [t |-> i, h |-> j'])
    /\ matched' = TRUE
    /\ pc' = "outer"
    /\ UNCHANGED <<dfTrendyol, dfHepsiburada, i, k>>
    /\ UNCHANGED <<ledgerVars, classifierVars, otherVars>>

\* One iteration of the inner loop whose condition does not hold.
ScanMiss ==
    /\ pc = "inner"
    /\ scanned < Len(dfHepsiburada)
    /\ ~RowsMatch(dfTrendyol[i], dfHepsiburada[scanned + 1])
    /\ j' = scanned + 1
    /\ scanned' = scanned + 1
    /\ UNCHANGED <<dfTrendyol, dfHepsiburada, new_df, origin, hepsi_matched,
                   trend_matched, i, k, matched, pc>>
    /\ UNCHANGED <<ledgerVars, classifierVars, otherVars>>

\* The inner loop ran out without a match: the row is appended with the HBID
\* read at j, the value the inner loop left behind.
UnmatchedTrendyol ==
    /\ pc = "inner"
    /\ scanned = Len(dfHepsiburada)
    /\ ~matched
    /\ j # 0
    /\ new_df' = Append(new_df, TrendyolRecord(dfTrendyol[i], dfHepsiburada[j]))
    /\ origin' = Append(origin, [t |-> i, h |-> j])
    /\ pc' = "outer"
    /\ UNCHANGED <<dfTrendyol, dfHepsiburada, hepsi_matched, trend_matched,
                   i, j, scanned, k, matched>>
    /\ UNCHANGED <<ledgerVars, classifierVars, otherVars>>

\* The same place when j was never bound (dfHepsiburada is empty): reading j
\* raises UnboundLocalError and matchingProducts returns nothing.
UnmatchedRaises ==
    /\ pc = "inner"
    /\ scanned = Len(dfHepsiburada)
    /\ ~matched
    /\ j = 0
    /\ pc' = "raised"
    /\ UNCHANGED <<dfTrendyol, dfHepsiburada, new_df, origin, hepsi_matched,
                   trend_matched, i, j, scanned, k, matched>>
    /\ UNCHANGED <<ledgerVars, classifierVars, otherVars>>

\* The outer loop is over: start the loop over the Hepsiburada rows.
StartTail ==
    /\ pc = "outer"
    /\ i = Len(dfTrendyol)
    /\ k' = 0
    /\ pc' = "tail"
    /\ UNCHANGED <<dfTrendyol, dfHepsiburada, new_df, origin, hepsi_matched,
                   trend_matched, i, j, scanned, matched>>
    /\ UNCHANGED <<ledgerVars, classifierVars, otherVars>>

\* for k in range(len(dfHepsiburada)): if k not in hepsi_matched: append
TailEmit ==
    /\ pc = "tail"
    /\ k < Len(dfHepsiburada)
    /\ (k + 1) \notin hepsi_matched
    /\ k' = k + 1
    /\ new_df' = Append(new_df, HepsiburadaRecord(dfHepsiburada[k']))
    /\ origin' = Append(origin, [t |-> 0, h |-> k'])
    /\ UNCHANGED <<dfTrendyol, dfHepsiburada, hepsi_matched, trend_matched,
                   i, j, scanned, matched, pc>>
    /\ UNCHANGED <<ledgerVars, classifierVars, otherVars>>

TailSkip ==
    /\ pc = "tail"
    /\ k < Len(dfHepsiburada)
    /\ (k + 1) \in hepsi_matched
    /\ k' = k + 1
    /\ UNCHANGED <<dfTrendyol, dfHepsiburada, new_df, origin, hepsi_matched,
                   trend_matched, i, j, scanned, matched, pc>>
    /\ UNCHANGED <<ledgerVars, classifierVars, otherVars>>

\* return new_df
ReturnTable ==
    /\ pc = "tail"
    /\ k = Len(dfHepsiburada)
    /\ pc' = "done"
    /\ UNCHANGED <<dfTrendyol, dfHepsiburada, new_df, origin, hepsi_matched,
                   trend_matched, i, j, scanned, k, matched>>
    /\ UNCHANGED <<ledgerVars, classifierVars, otherVars>>

matchingProducts ==
    \/ NextTrendyol
    \/ ScanMatch
    \/ ScanMiss
    \/ UnmatchedTrendyol
    \/ UnmatchedRaises
    \/ StartTail
    \/ TailEmit
    \/ TailSkip
    \/ ReturnTable

-----------------------------------------------------------------------------
(* The priceTracking ledger.  A row is <<id, barcode, title, price,        *)
(* created_at>>.  created_at and CURDATE() are day numbers: both bounds of *)
(* the window query are midnights, so a timestamp lies in the window       *)
(* exactly when its day does.                                              *)

Barcodes == {"b1", "b2"}
SalePrices == {80, 90}
NewPrices == {70, 85, 90, 95}

Title(b) == IF b = "b1" THEN "Tea" ELSE "Honey"

\* The products of a pull: dictionaries with barcode, title and salePrice.
Products == { [barcode |-> b, title |-> Title(b), salePrice |-> p] :
                b \in Barcodes, p \in SalePrices }

\* get_turkey_time() is the clock of Europe/Istanbul while CURDATE() is the
\* database's: the date written is the database's or the day after it.
TurkeyDayAhead == {0, 1}

\* How far the calendar moves between two operations.
DaySteps == {7, 23}

SetMax(S) == CHOOSE x \in S : \A y \in S : y <= x

\* The rows store_products inserts for a pull, with auto-incremented ids.
InsertedRows(products, created_at) ==
    [n \in 1..Len(products) |->
        << Len(ledger) + n, products[n].barcode, products[n].title,
           products[n].salePrice, created_at >>]

\* A store that rewrites the table instead of adding to it.
store_products_replacing(products, ahead) ==
    /\ cpc = "idle" /\ mpc = "idle" /\ pc = "idle"
    /\ Len(products) <= MaxLedger
    /\ ledger' = [n \in 1..Len(products) |->
                    << n, products[n].barcode, products[n].title,
                       products[n].salePrice, today + ahead >>]
    /\ UNCHANGED <<today, matcherVars, classifierVars, otherVars>>

store_products(products, ahead) ==
    /\ cpc = "idle" /\ mpc = "idle" /\ pc = "idle"
    /\ Len(ledger) + Len(products) <= MaxLedger
    /\ ledger' = ledger \o InsertedRows(products, today + ahead)
    /\ UNCHANGED <<today, matcherVars, classifierVars, otherVars>>

\* Midnight passes.
AdvanceDay(d) ==
    /\ cpc = "idle" /\ mpc = "idle" /\ pc = "idle"
    /\ today + d <= MaxDay
    /\ today' = today + d
    /\ UNCHANGED <<ledger, matcherVars, classifierVars, otherVars>>

\* A window query whose windows are seven-day bands that do not all end
\* today.
fetch_data_by_range_band(days) ==
    SelectSeq(ledger, LAMBDA row : /\ row[5] >= today - (days - 1)
                                   /\ row[5] < today - (days - 1) + 7)

\* WHERE created_at >= CURDATE() - INTERVAL days DAY (one day too many)
fetch_data_by_range_one_more(days) ==
    SelectSeq(ledger, LAMBDA row : /\ row[5] >= today - days
                                   /\ row[5] < today + 1)

\* WHERE created_at >= CURDATE() - INTERVAL {days-1} DAY
\*   AND created_at <  CURDATE() + INTERVAL 1 DAY
fetch_data_by_range(days) ==
    SelectSeq(ledger, LAMBDA row : /\ row[5] >= today - (days - 1)
                                   /\ row[5] < today + 1)

-----------------------------------------------------------------------------
(* get_price_category.  It calls get_min_price_last_days, which the source *)
(* does not define: the window minimum is modelled from the specification, *)
(* over the rows fetch_data_by_range returns, with "no data" as a value    *)
(* above every price (treated as infinitely high).                         *)

WeekDays == 7
TwoWeekDays == 14
MonthDays == 30

Infinity == SetMax(SalePrices \cup NewPrices) + 1
NoData == Infinity

get_min_price_last_days(b, days) ==
    LET df == fetch_data_by_range(days)
        prices == { df[n][4] : n \in { m \in DOMAIN df : df[m][2] = b } }
    IN  IF prices = {} THEN NoData ELSE SetMin(prices)

\* The cascade with the tiers tested widest first.
PriceCategoryWidestFirst(p, w7, w14, w30) ==
    IF p <= w30 THEN "1-month-low"
    ELSE IF p <= w14 THEN "2-week-low"
    ELSE IF p <= w7 THEN "1-week-low"
    ELSE "none"

\* The cascade with the comparisons turned around.
PriceCategoryFlipped(p, w7, w14, w30) ==
    IF p >= w7 THEN "1-week-low"
    ELSE IF p >= w14 THEN "2-week-low"
    ELSE IF p >= w30 THEN "1-month-low"
    ELSE "none"

\* The cascade with strict comparisons.
PriceCategoryStrict(p, w7, w14, w30) ==
    IF p < w7 THEN "1-week-low"
    ELSE IF p < w14 THEN "2-week-low"
    ELSE IF p < w30 THEN "1-month-low"
    ELSE "none"

\* if new_price <= week_low ... elif ... elif ... else
PriceCategory(p, w7, w14, w30) ==
    IF p <= w7 THEN "1-week-low"
    ELSE IF p <= w14 THEN "2-week-low"
    ELSE IF p <= w30 THEN "1-month-low"
    ELSE "none"

\* get_price_category(barcode, new_price), first part: the three window queries.
QueryWindows(b, p) ==
    /\ cpc = "idle" /\ mpc = "idle" /\ pc = "idle"
    /\ barcode' = b
    /\ new_price' = p
    /\ week_low' = get_min_price_last_days(b, WeekDays)
    /\ two_week_low' = get_min_price_last_days(b, TwoWeekDays)
    /\ month_low' = get_min_price_last_days(b, MonthDays)
    /\ cpc' = "queried"
    /\ UNCHANGED <<category, ledgerVars, matcherVars, otherVars>>

\* Second part: the cascade and the return.
Classify ==
    /\ cpc = "queried"
    /\ category' = PriceCategory(new_price, week_low, two_week_low, month_low)
    /\ cpc' = "returned"
    /\ UNCHANGED <<barcode, new_price, week_low, two_week_low, month_low,
                   ledgerVars, matcherVars, otherVars>>

\* The caller has the label; the locals are gone.
CallerResumes ==
    /\ cpc = "returned"
    /\ barcode' = ""
    /\ new_price' = 0
    /\ week_low' = 0
    /\ two_week_low' = 0
    /\ month_low' = 0
    /\ category' = ""
    /\ cpc' = "idle"
    /\ UNCHANGED <<ledgerVars, matcherVars, otherVars>>

-----------------------------------------------------------------------------
(* fetch_data_by_month_year.  Day 0 of the model is 10 December 2024, so   *)
(* December 2024 is days 0..21 and January 2025 starts on day 22.          *)

MonthOf(d) == IF d <= 21 THEN 12 ELSE 1
YearOf(d) == IF d <= 21 THEN 2024 ELSE 2025

Months == {1, 12}
Years == {2024, 2025}

\* WHERE MONTH(created_at) = {month} (the year is not looked at)
MonthRowsOfAnyYear(m, y) ==
    SelectSeq(ledger, LAMBDA row : MonthOf(row[5]) = m)

\* WHERE MONTH(created_at) = {month} AND YEAR(created_at) = {year}
MonthYearRows(m, y) ==
    SelectSeq(ledger, LAMBDA row : MonthOf(row[5]) = m /\ YearOf(row[5]) = y)

\* rows == []: raise Exception("No data found ..."); else the data frame.
fetch_data_by_month_year(m, y) ==
    /\ cpc = "idle" /\ mpc = "idle" /\ pc = "idle"
    /\ month' = m
    /\ year' = y
    /\ IF MonthYearRows(m, y) = <<>>
       THEN month_df' = <<>> /\ mpc' = "raised"
       ELSE month_df' = MonthYearRows(m, y) /\ mpc' = "returned"
    /\ UNCHANGED <<matcherVars, ledgerVars, classifierVars, pullVars, batchVars>>

\* The caller has the data frame or the exception.
MonthCallerResumes ==
    /\ mpc \in {"returned", "raised"}
    /\ month' = 0
    /\ year' = 0
    /\ month_df' = <<>>
    /\ mpc' = "idle"
    /\ UNCHANGED <<matcherVars, ledgerVars, classifierVars, pullVars, batchVars>>

\* No month query, no pull and no price update is under way.
MonthNotCalled == month = 0 /\ year = 0 /\ month_df = <<>> /\ mpc = "idle"

PullNotCalled ==
    /\ variant = "controller"
    /\ total_pages = 0
    /\ current_page = 0
    /\ fetched = <<>>
    /\ requested = <<>>
    /\ failed_page = -1
    /\ rpc = "idle"

BatchNotCalled ==
    /\ batches = <<>>
    /\ batch_id = ""
    /\ update_ok = FALSE
    /\ requested_id = ""
    /\ response_ok = FALSE
    /\ all_success = FALSE
    /\ bpc = "idle"

\* The matcher is not running.
MatcherNotCalled ==
    /\ dfTrendyol = <<>>
    /\ dfHepsiburada = <<>>
    /\ new_df = <<>>
    /\ origin = <<>>
    /\ hepsi_matched = {}
    /\ trend_matched = {}
    /\ i = 0
    /\ j = 0
    /\ scanned = 0
    /\ k = 0
    /\ matched = FALSE
    /\ pc = "idle"

-----------------------------------------------------------------------------
(* The matcher on its own: both tables are arguments, the ledger and the   *)
(* classifier are not involved.                                            *)

InitMatcher ==
    /\ MonthNotCalled /\ PullNotCalled /\ BatchNotCalled
    /\ MatcherInit
    /\ ledger = <<>>
    /\ today = 0
    /\ barcode = ""
    /\ new_price = 0
    /\ week_low = 0
    /\ two_week_low = 0
    /\ month_low = 0
    /\ category = ""
    /\ cpc = "idle"

SpecMatcher == InitMatcher /\ [][matchingProducts]_vars

-----------------------------------------------------------------------------
(* The ledger over time with the classifier called on it: pulls are stored,*)
(* days pass, get_price_category is called between them.                   *)

InitHistory ==
    /\ MonthNotCalled /\ PullNotCalled /\ BatchNotCalled
    /\ MatcherNotCalled
    /\ ledger = <<>>
    /\ today = 0
    /\ barcode = ""
    /\ new_price = 0
    /\ week_low = 0
    /\ two_week_low = 0
    /\ month_low = 0
    /\ category = ""
    /\ cpc = "idle"

NextHistory ==
    \/ \E products \in SeqsUpTo(Products, MaxLedger) \ {<<>>},
          ahead \in TurkeyDayAhead : store_products(products, ahead)
    \/ \E d \in DaySteps : AdvanceDay(d)
    \/ \E b \in Barcodes, p \in NewPrices : QueryWindows(b, p)
    \/ Classify
    \/ CallerResumes
    \/ \E m \in Months, y \in Years : fetch_data_by_month_year(m, y)
    \/ MonthCallerResumes

SpecHistory == InitHistory /\ [][NextHistory]_vars

(* The cascade of get_price_category on its own, for every triple of       *)
(* window minimums the three queries can hand it.                          *)

WindowValues == {70, 80, 90, NoData}

InitClassifier ==
    /\ MonthNotCalled /\ PullNotCalled /\ BatchNotCalled
    /\ MatcherNotCalled
    /\ ledger = <<>>
    /\ today = 0
    /\ barcode \in Barcodes
    /\ new_price \in NewPrices
    /\ week_low \in WindowValues
    /\ two_week_low \in WindowValues
    /\ month_low \in WindowValues
    /\ category = ""
    /\ cpc = "queried"

NextClassifier ==
    \/ Classify
    \/ CallerResumes

SpecClassifier == InitClassifier /\ [][NextClassifier]_vars

(* Every operation that touches or reads the ledger, one call at a time:  *)
(* the history above plus calls of matchingProducts.                       *)

\* The tables matchingProducts is called with here: the example of the
\* specification, a Trendyol row that matches nothing in a Hepsiburada table
\* of one row, and the same row against an empty table.
MatcherCalls ==
    { << << <<"111", "", "W1", "Widget", 10, 5>> >>,
         << <<"999", "HB1", "Gadget", 20, 7, "111">> >> >>,
      << << <<"222", "333", NaN, "Gizmo", 12, 3>> >>,
         << <<"999", "HB1", "Gadget", 20, 7, "111">> >> >>,
      << << <<"222", "333", NaN, "Gizmo", 12, 3>> >>, <<>> >> }

\* The candidate price the classifier is called with here.
LedgerNewPrices == {85}

\* The pulls stored here: every sequence of catalogue records at one price
\* (the ledger's growth does not depend on the prices written).
LedgerPulls ==
    SeqsUpTo({ product \in Products : product.salePrice = SetMin(SalePrices) },
             MaxLedger) \ {<<>>}

\* A caller hands two tables to matchingProducts.
CallMatcher(tables) ==
    /\ cpc = "idle" /\ mpc = "idle" /\ pc = "idle"
    /\ dfTrendyol' = tables[1]
    /\ dfHepsiburada' = tables[2]
    /\ new_df' = <<>>
    /\ origin' = <<>>
    /\ hepsi_matched' = {}
    /\ trend_matched' = {}
    /\ i' = 0
    /\ j' = 0
    /\ scanned' = 0
    /\ k' = 0
    /\ matched' = FALSE
    /\ pc' = "outer"
    /\ UNCHANGED <<ledgerVars, classifierVars, otherVars>>

\* The caller takes the table, or the exception, and goes on.
MatcherCallerResumes ==
    /\ pc \in {"done", "raised"}
    /\ dfTrendyol' = <<>>
    /\ dfHepsiburada' = <<>>
    /\ new_df' = <<>>
    /\ origin' = <<>>
    /\ hepsi_matched' = {}
    /\ trend_matched' = {}
    /\ i' = 0
    /\ j' = 0
    /\ scanned' = 0
    /\ k' = 0
    /\ matched' = FALSE
    /\ pc' = "idle"
    /\ UNCHANGED <<ledgerVars, classifierVars, otherVars>>

NextLedger ==
    \/ \E products \in LedgerPulls,
          ahead \in TurkeyDayAhead : store_products(products, ahead)
    \/ \E d \in DaySteps : AdvanceDay(d)
    \/ \E b \in Barcodes, p \in LedgerNewPrices : QueryWindows(b, p)
    \/ Classify
    \/ CallerResumes
    \/ \E m \in Months, y \in Years : fetch_data_by_month_year(m, y)
    \/ MonthCallerResumes
    \/ \E tables \in MatcherCalls : CallMatcher(tables)
    \/ matchingProducts
    \/ MatcherCallerResumes

SpecLedger == InitHistory /\ [][NextLedger]_vars

-----------------------------------------------------------------------------
(* The catalogue pull: fetch_all_products and run of the class, and the    *)
(* same loop as the ProductPull script writes it.                          *)

MaxPages == 2

\* "controller" is the class (both copies of it), "script" is ProductPull.
Variants == {"controller", "script"}

\* The content the catalogue returns for page p when it holds tp pages, one
\* product per page; a page past the last one has no content.
CatalogPage(p, tp) ==
    IF p < tp
    THEN << [barcode   |-> IF p % 2 = 0 THEN "b1" ELSE "b2",
             title     |-> Title(IF p % 2 = 0 THEN "b1" ELSE "b2"),
             salePrice |-> IF p % 2 = 0 THEN 80 ELSE 90] >>
    ELSE <<>>

\* The condition of the while loop.
LoopContinues ==
    IF variant = "controller"
    THEN current_page < total_pages
    ELSE current_page <= total_pages

\* run is called, or the script is started.
run(v) ==
    /\ rpc = "idle" /\ cpc = "idle" /\ mpc = "idle" /\ pc = "idle"
    /\ variant' = v
    /\ total_pages' = 0
    /\ current_page' = 0
    /\ fetched' = <<>>
    /\ requested' = <<>>
    /\ failed_page' = -1
    /\ rpc' = "first"
    /\ UNCHANGED <<matcherVars, ledgerVars, classifierVars, monthVars,
                   batchVars>>

\* The request for page 0. A failure raises in the class and is printed by
\* the script; a success reports how many pages there are.
FirstRequest(ok, tp) ==
    /\ rpc = "first"
    /\ Len(ledger) + tp <= MaxLedger
    /\ requested' = <<0>>
    /\ IF ok
       THEN /\ fetched' = CatalogPage(0, tp)
            /\ total_pages' = tp
            /\ rpc' = "loop"
            /\ UNCHANGED failed_page
       ELSE /\ failed_page' = 0
            /\ rpc' = IF variant = "controller" THEN "raised" ELSE "printed"
            /\ UNCHANGED <<fetched, total_pages>>
    /\ UNCHANGED <<variant, current_page>>
    /\ UNCHANGED <<matcherVars, ledgerVars, classifierVars, monthVars,
                   batchVars>>

\* One turn of the loop: the next page is requested; a failure prints a
\* warning and breaks out of the loop.
NextPage(ok) ==
    /\ rpc = "loop"
    /\ LoopContinues
    /\ current_page' = current_page + 1
    /\ requested' = Append(requested, current_page + 1)
    /\ IF ok
       THEN /\ fetched' = fetched \o CatalogPage(current_page + 1, total_pages)
            /\ UNCHANGED <<failed_page, rpc>>
       ELSE /\ failed_page' = current_page + 1
            /\ rpc' = "fetched"
            /\ UNCHANGED fetched
    /\ UNCHANGED <<variant, total_pages>>
    /\ UNCHANGED <<matcherVars, ledgerVars, classifierVars, monthVars,
                   batchVars>>

\* The loop condition fails: the list is returned.
ReturnProducts ==
    /\ rpc = "loop"
    /\ ~LoopContinues
    /\ rpc' = "fetched"
    /\ UNCHANGED <<variant, total_pages, current_page, fetched, requested,
                   failed_page>>
    /\ UNCHANGED <<matcherVars, ledgerVars, classifierVars, monthVars,
                   batchVars>>

fetch_all_products ==
    \/ \E ok \in BOOLEAN, tp \in 0..MaxPages : FirstRequest(ok, tp)
    \/ \E ok \in BOOLEAN : NextPage(ok)
    \/ ReturnProducts

\* run hands whatever fetch_all_products returned to store_products.
StoreFetched(ahead) ==
    /\ rpc = "fetched"
    /\ ledger' = ledger \o InsertedRows(fetched, today + ahead)
    /\ rpc' = "stored"
    /\ UNCHANGED <<variant, total_pages, current_page, fetched, requested,
                   failed_page>>
    /\ UNCHANGED <<today, matcherVars, classifierVars, monthVars, batchVars>>

\* The connection is closed and the caller of run goes on.
PullCallerResumes ==
    /\ rpc \in {"stored", "raised", "printed"}
    /\ variant' = "controller"
    /\ total_pages' = 0
    /\ current_page' = 0
    /\ fetched' = <<>>
    /\ requested' = <<>>
    /\ failed_page' = -1
    /\ rpc' = "idle"
    /\ UNCHANGED <<matcherVars, ledgerVars, classifierVars, monthVars,
                   batchVars>>

NextPull ==
    \/ \E v \in Variants : run(v)
    \/ fetch_all_products
    \/ \E ahead \in TurkeyDayAhead : StoreFetched(ahead)
    \/ PullCallerResumes
    \/ \E d \in DaySteps : AdvanceDay(d)

SpecPull == InitHistory /\ [][NextPull]_vars

-----------------------------------------------------------------------------
(* The price update round trip: update_product_price and                   *)
(* check_batch_status against the marketplace's batch requests.            *)

MaxBatches == 2

\* The batchRequestId the marketplace gives to its n-th batch.
Handles == <<"h1", "h2", "h3", "h4">>

\* What the marketplace reports for an item of a batch.
ItemStatuses == {"SUCCESS", "FAILED"}

\* The last path segment of the status URL: inside the f-string the doubled
\* braces are escapes, so the segment is the text {batch_id} whatever the
\* argument.
BatchUrl(id) == "{batch_id}"

\* The marketplace knows a batch under handle id.
BatchKnown(id) == \E n \in 1..Len(batches) : Handles[n] = id

\* The batch the marketplace filed under handle id.
BatchOf(id) ==
    batches[CHOOSE n \in 1..Len(batches) : Handles[n] = id]

\* The status codes the marketplace can answer a status request for id
\* with, and the items of a 200: those of the batch with that handle; what
\* it answers for an id it never issued is not known, a failure or a body
\* without items.
StatusCodes(id) == IF BatchKnown(id) THEN {200, 500} ELSE {200, 404, 500}

BatchItems(id) == IF BatchKnown(id) THEN BatchOf(id).items ELSE <<>>

\* One item is posted; on 200 the marketplace has accepted a batch and its
\* handle is returned with True, otherwise "" with False.
update_product_price(b, sale_price, list_price, status_code, status) ==
    /\ bpc = "idle"
    /\ IF status_code = 200
       THEN /\ Len(batches) < MaxBatches
            /\ batches' = Append(batches,
                 [items |-> << [barcode |-> b, salePrice |-> sale_price,
                                listPrice |-> list_price,
                                status |-> status] >>])
            /\ batch_id' = Handles[Len(batches) + 1]
            /\ update_ok' = TRUE
       ELSE /\ status = "FAILED"
            /\ batch_id' = ""
            /\ update_ok' = FALSE
            /\ UNCHANGED batches
    /\ bpc' = "updated"
    /\ UNCHANGED <<requested_id, response_ok, all_success>>
    /\ UNCHANGED <<matcherVars, ledgerVars, classifierVars, monthVars,
                   pullVars>>

\* The caller passes the handle it was given; all_success holds the value
\* returned.
check_batch_status(id, status_code) ==
    /\ bpc = "updated"
    /\ update_ok
    /\ id = batch_id
    /\ status_code \in StatusCodes(BatchUrl(id))
    /\ requested_id' = BatchUrl(id)
    /\ response_ok' = (status_code = 200)
    /\ all_success' =
          IF status_code = 200
          THEN \A n \in 1..Len(BatchItems(BatchUrl(id))) :
                  BatchItems(BatchUrl(id))[n].status = "SUCCESS"
          ELSE FALSE
    /\ bpc' = "checked"
    /\ UNCHANGED <<batches, batch_id, update_ok>>
    /\ UNCHANGED <<matcherVars, ledgerVars, classifierVars, monthVars,
                   pullVars>>

\* The caller goes on to its next update.
BatchCallerResumes ==
    /\ bpc \in {"updated", "checked"}
    /\ batch_id' = ""
    /\ update_ok' = FALSE
    /\ requested_id' = ""
    /\ response_ok' = FALSE
    /\ all_success' = FALSE
    /\ bpc' = "idle"
    /\ UNCHANGED batches
    /\ UNCHANGED <<matcherVars, ledgerVars, classifierVars, monthVars,
                   pullVars>>

NextBatch ==
    \/ \E b \in Barcodes, p \in SalePrices, status_code \in {200, 500},
          status \in ItemStatuses :
          update_product_price(b, p, p, status_code, status)
    \/ \E n \in 1..MaxBatches, status_code \in {200, 404, 500} :
          check_batch_status(Handles[n], status_code)
    \/ BatchCallerResumes

SpecBatch == InitHistory /\ [][NextBatch]_vars

-----------------------------------------------------------------------------
(* Properties of matchingProducts *)

\* The Hepsiburada indices that satisfy one of the six equalities with
\* Trendyol row a: primary id, secondary id or name-adjacent field of the
\* Trendyol row equal to the primary or the secondary id of the other row.
Candidates(a) ==
    { b \in DOMAIN dfHepsiburada :
        \/ CellEq(dfTrendyol[a][1], dfHepsiburada[b][1])
        \/ CellEq(dfTrendyol[a][1], dfHepsiburada[b][6])
        \/ CellEq(dfTrendyol[a][2], dfHepsiburada[b][1])
        \/ CellEq(dfTrendyol[a][2], dfHepsiburada[b][6])
        \/ CellEq(dfTrendyol[a][3], dfHepsiburada[b][1])
        \/ CellEq(dfTrendyol[a][3], dfHepsiburada[b][6]) }

\* The rows of new_df built for Trendyol row a / that read Hepsiburada row b.
RowsOfTrendyol(a) == { r \in DOMAIN origin : origin[r].t = a }
RowsOfHepsiburada(b) == { r \in DOMAIN origin : origin[r].h = b }

\* The Trendyol rows whose outer iteration is over.
Processed ==
    { a \in DOMAIN dfTrendyol :
        a < i \/ (a = i /\ pc \in {"outer", "tail", "done"}) }

\* C1: the returned table has |A| + |B| - matchCount rows, matchCount being
\* the number of Trendyol rows that found a match, also when two Trendyol
\* rows match the same Hepsiburada row.
C1_RowCount ==
    pc = "done" =>
        Len(new_df) = Len(dfTrendyol) + Len(dfHepsiburada)
                        - Cardinality(trend_matched)

\* C2: in the returned table every Trendyol row and every Hepsiburada row is
\* represented in exactly one record, as a match, as an unmatched record or as
\* the cross-reference of a record; no Hepsiburada row serves two records.
C2_ExactlyOnce ==
    pc = "done" =>
        /\ \A a \in DOMAIN dfTrendyol : Cardinality(RowsOfTrendyol(a)) = 1
        /\ \A b \in DOMAIN dfHepsiburada : Cardinality(RowsOfHepsiburada(b)) = 1

\* C3: the record of a Trendyol row that matched nothing never carries, as its
\* HBID, an identifier of any Hepsiburada row.
C3_NoStaleCrossRef ==
    \A r \in DOMAIN new_df :
        (origin[r].t # 0 /\ origin[r].t \notin trend_matched) =>
            \A b \in DOMAIN dfHepsiburada :
                new_df[r][2] \notin { dfHepsiburada[b][1], dfHepsiburada[b][2],
                                      dfHepsiburada[b][6] }

\* C4: each Trendyol row is paired with the lowest-index Hepsiburada row that
\* satisfies one of the six equalities, the scan stops there, and the row is
\* treated as unmatched exactly when no Hepsiburada row satisfies any.
C4_FirstMatchWins ==
    /\ pc = "inner" => \A b \in 1..scanned : b \notin Candidates(i)
    /\ pc = "raised" => Candidates(i) = {}
    /\ \A a \in Processed :
        /\ Cardinality(RowsOfTrendyol(a)) = 1
        /\ a \in trend_matched <=> Candidates(a) # {}
        /\ Candidates(a) # {} =>
            /\ \A r \in RowsOfTrendyol(a) : origin[r].h = SetMin(Candidates(a))
            /\ SetMin(Candidates(a)) \in hepsi_matched
            /\ a = i => scanned = SetMin(Candidates(a))
    /\ \A a \in DOMAIN dfTrendyol : a \notin Processed => RowsOfTrendyol(a) = {}

C4_Witness ==
    /\ pc = "done"
    /\ \E a \in trend_matched : Candidates(a) = {1, 2}
    /\ \E a \in DOMAIN dfTrendyol : a \notin trend_matched /\ Candidates(a) = {}

\* The scenario of the specification: one Trendyol row with id 111 and an
\* empty secondary id, one Hepsiburada row with id 999 whose compared
\* secondary id (col 5) is 111.
ScenarioInput ==
    /\ dfTrendyol = << <<"111", "", "W1", "Widget", 10, 5>> >>
    /\ dfHepsiburada = << <<"999", "HB1", "Gadget", 20, 7, "111">> >>

\* C5 as stated: the cross-reference of a matched record is the Hepsiburada
\* field the matching rule compares (col 5), "111" in the scenario.
C5_CrossRefIsComparedId ==
    /\ \A r \in DOMAIN new_df :
        origin[r].t \in trend_matched =>
            new_df[r] = << dfTrendyol[origin[r].t][1],
                           dfHepsiburada[origin[r].h][6],
                           dfTrendyol[origin[r].t][4],
                           dfTrendyol[origin[r].t][5],
                           dfTrendyol[origin[r].t][6] >>
    /\ (pc = "done" /\ ScenarioInput) =>
            new_df = << <<"111", "111", "Widget", 10, 5>> >>

\* C5 as amended: a matched record is the Trendyol row's stock id, name, price
\* and stock with the HBID column (col 1) of the first matching Hepsiburada
\* row, a column the matching rule does not compare; the scenario yields the
\* single record whose cross-reference is that row's HBID.
C5_CrossRefIsHBID ==
    /\ \A r \in DOMAIN new_df :
        origin[r].t \in trend_matched =>
            new_df[r] = << dfTrendyol[origin[r].t][1],
                           dfHepsiburada[SetMin(Candidates(origin[r].t))][2],
                           dfTrendyol[origin[r].t][4],
                           dfTrendyol[origin[r].t][5],
                           dfTrendyol[origin[r].t][6] >>
    /\ (pc = "done" /\ ScenarioInput) =>
            new_df = << <<"111", "HB1", "Widget", 10, 5>> >>

C5_Witness ==
    /\ pc = "done"
    /\ ScenarioInput
    /\ trend_matched = {1}
    /\ Len(new_df) = 1

\* C6: matchingProducts never raises, whatever the two tables are.
C6_NeverRaises == pc # "raised"

-----------------------------------------------------------------------------
(* Properties of get_price_category and of the window query *)

Labels == {"1-week-low", "2-week-low", "1-month-low", "none"}

\* C7: the tiers are tested in order with inclusive comparisons and exactly one
\* label comes back: the tightest tier the price satisfies, "none" if it
\* satisfies no tier; a price equal to the 7-day minimum is a 1-week low.
C7_TightestTier ==
    cpc = "returned" =>
        /\ category \in Labels
        /\ (category = "1-week-low") <=> (new_price <= week_low)
        /\ (category = "2-week-low") <=>
              (new_price > week_low /\ new_price <= two_week_low)
        /\ (category = "1-month-low") <=>
              (/\ new_price > week_low
               /\ new_price > two_week_low
               /\ new_price <= month_low)
        /\ (category = "none") <=>
              (/\ new_price > week_low
               /\ new_price > two_week_low
               /\ new_price > month_low)

C7_Witness ==
    /\ cpc = "returned"
    /\ new_price = week_low
    /\ new_price <= two_week_low
    /\ new_price <= month_low
    /\ category = "1-week-low"

\* The history of the specification's example.
ExampleWindows == week_low = 90 /\ two_week_low = 80 /\ month_low = 70

\* C8 as stated: with w7 = 90, w14 = 80, w30 = 70 a price of 85 is a 2-week low
\* and a price of 95 is no low.
C8_Example2WeekLow ==
    (cpc = "returned" /\ ExampleWindows) =>
        /\ new_price = 85 => category = "2-week-low"
        /\ new_price = 95 => category = "none"

\* C8 as amended: with w7 = 90, w14 = 80, w30 = 70 a price of 85 is a 1-week
\* low (85 <= 90 decides in the first tier) and a price of 95 is no low.
C8_Example1WeekLow ==
    (cpc = "returned" /\ ExampleWindows) =>
        /\ new_price = 85 => category = "1-week-low"
        /\ new_price = 95 => category = "none"

C8_Witness ==
    /\ cpc = "returned"
    /\ ExampleWindows
    /\ new_price = 85
    /\ category = "1-week-low"

\* The ledger rows of product b whose timestamp lies in
\* [today - (n-1) days, today + 1 day).
Observed(b, n) ==
    { r \in DOMAIN ledger :
        /\ ledger[r][2] = b
        /\ ledger[r][5] >= today - (n - 1)
        /\ ledger[r][5] < today + 1 }

IsWindowMinimum(w, b, n) ==
    IF Observed(b, n) = {}
    THEN w = NoData
    ELSE /\ \E r \in Observed(b, n) : w = ledger[r][4]
         /\ \A r \in Observed(b, n) : w <= ledger[r][4]

\* C10: each of the classifier's three window queries returns the minimum
\* price over exactly the product's observations in
\* [today - (n-1) days, today + 1 day), or the no-data signal, which is no
\* price of the ledger and not zero.
C10_WindowQuery ==
    cpc \in {"queried", "returned"} =>
        /\ IsWindowMinimum(week_low, barcode, 7)
        /\ IsWindowMinimum(two_week_low, barcode, 14)
        /\ IsWindowMinimum(month_low, barcode, 30)
        /\ NoData # 0
        /\ \A r \in DOMAIN ledger : ledger[r][4] # NoData

C10_Witness ==
    /\ cpc = "queried"
    /\ \E r \in Observed(barcode, 7) :
        /\ ledger[r][5] = today - 6
        /\ week_low = ledger[r][4]
    /\ \E r \in DOMAIN ledger :
        /\ ledger[r][2] # barcode
        /\ ledger[r][5] = today
        /\ ledger[r][4] < week_low
    /\ two_week_low = week_low

-----------------------------------------------------------------------------
(* Properties of fetch_data_by_month_year *)

\* The ledger rows, of any product, stamped in the month and year asked for.
RowsOfMonth ==
    { r \in DOMAIN ledger :
        MonthOf(ledger[r][5]) = month /\ YearOf(ledger[r][5]) = year }

\* C11: fetch_data_by_month_year returns every observation of the ledger,
\* whatever its product, stamped in the calendar month and year asked for, and
\* no other; when there is none it raises instead of returning an empty frame.
C11_MonthQuery ==
    /\ mpc = "returned" =>
        /\ RowsOfMonth # {}
        /\ Len(month_df) = Cardinality(RowsOfMonth)
        /\ \A r \in DOMAIN ledger :
            r \in RowsOfMonth <=> \E n \in DOMAIN month_df : month_df[n] = ledger[r]
    /\ mpc = "raised" => RowsOfMonth = {}
    /\ mpc = "idle" => month_df = <<>>

C11_Witness ==
    /\ mpc = "returned"
    /\ Len(ledger) = 2
    /\ ledger[1][2] # ledger[2][2]
    /\ RowsOfMonth = {2}
    /\ month_df = <<ledger[2]>>

-----------------------------------------------------------------------------
(* Properties of the ledger *)

\* C12: the ledger is append-only: no step changes or removes a row; the
\* window and month queries, the classifier and the matcher leave it as it is;
\* a stored pull adds one row per product of the pull, in the pull's order.
C12_AppendOnly ==
    [][ /\ Len(ledger') >= Len(ledger)
        /\ SubSeq(ledger', 1, Len(ledger)) = ledger
        /\ (cpc' # cpc \/ mpc' # mpc \/ pc' # pc \/ pc # "idle") =>
              ledger' = ledger
        /\ \A products \in SeqsUpTo(Products, MaxLedger) \ {<<>>},
              ahead \in TurkeyDayAhead :
              store_products(products, ahead) =>
                /\ Len(ledger') = Len(ledger) + Len(products)
                /\ \A n \in 1..Len(products) :
                    /\ ledger'[Len(ledger) + n][2] = products[n].barcode
                    /\ ledger'[Len(ledger) + n][3] = products[n].title
                    /\ ledger'[Len(ledger) + n][4] = products[n].salePrice
      ]_vars

C12_Witness ==
    /\ Len(ledger) = 2
    /\ ledger[1][5] < ledger[2][5]
    /\ pc = "done"

\* C16: the windows end today and are nested, so the minimum of a wider
\* window is at or below that of a shorter one that has data; with an
\* observation of the product in the 7-day window get_price_category
\* returns "1-week-low" or "none", and it returns "2-week-low" or
\* "1-month-low" only when a shorter window has no data.
C16_NestedWindows ==
    cpc = "returned" =>
        /\ Observed(barcode, 7) # {} =>
              /\ two_week_low <= week_low
              /\ month_low <= two_week_low
              /\ category \in {"1-week-low", "none"}
        /\ Observed(barcode, 14) # {} => month_low <= two_week_low
        /\ category \in {"2-week-low", "1-month-low"} =>
              (Observed(barcode, 7) = {} \/ Observed(barcode, 14) = {})

\* The product was seen this week, and cheaper the week before: a price
\* above this week's minimum is "none".
C16_Witness ==
    /\ cpc = "returned"
    /\ Observed(barcode, 7) # {}
    /\ two_week_low < week_low
    /\ new_price > week_low
    /\ category = "none"

-----------------------------------------------------------------------------
(* Properties of the catalogue pull *)

\* The pages the catalogue holds: 0 .. total_pages - 1, and page 0 when the
\* first request has not told yet.
RealPages == 0..(IF total_pages = 0 THEN 0 ELSE total_pages - 1)

\* C13: when the request for a page of the catalogue fails, the first or a
\* later one, run of the class ends with the failure raised to its caller,
\* and so without a partial snapshot handed to store_products.
C13_FailurePropagated ==
    (variant = "controller" /\ failed_page \in RealPages) => rpc = "raised"

\* The page indices 0 .. n - 1 in increasing order.
PagesUpTo(n) == [m \in 1..n |-> m - 1]

RECURSIVE AllPages(_, _)
\* The content of pages 0 .. n - 1 of a catalogue of tp pages, in order.
AllPages(n, tp) ==
    IF n = 0 THEN <<>> ELSE AllPages(n - 1, tp) \o CatalogPage(n - 1, tp)

\* C14: after the first response has reported totalPages, no page index at
\* or past totalPages is requested and the indices are requested once each
\* in increasing order; when the loop has ended with every request
\* successful, the pages requested are exactly 0 .. totalPages - 1 and the
\* list returned is their concatenation.
C14_PagesRequested ==
    /\ \A n \in 1..Len(requested) : requested[n] = n - 1
    /\ \A n \in 2..Len(requested) : requested[n] < total_pages
    /\ (rpc \in {"fetched", "stored"} /\ failed_page = -1) =>
          /\ total_pages > 0 => requested = PagesUpTo(total_pages)
          /\ fetched = AllPages(total_pages, total_pages)

-----------------------------------------------------------------------------
(* Properties of the price update round trip *)

\* C15: update_product_price returns the new batch's handle with True on 200
\* and "" with False otherwise; check_batch_status asks for the status of
\* the handle it was passed, and returns True exactly when that request
\* succeeds and every item of that batch is reported SUCCESS.
C15_RoundTrip ==
    /\ bpc = "updated" =>
          \/ update_ok /\ batch_id = Handles[Len(batches)]
          \/ ~update_ok /\ batch_id = ""
    /\ bpc = "checked" =>
          /\ requested_id = batch_id
          /\ all_success <=>
                /\ response_ok
                /\ \A n \in 1..Len(BatchOf(batch_id).items) :
                      BatchOf(batch_id).items[n].status = "SUCCESS"

====
